---- MODULE Spec2Model ----
(***************************************************************************)
(* Model of transcode.py: the single-slot transcode job coordinator.       *)
(*                                                                         *)
(* Strings are modelled as sequences of one-character strings, so that     *)
(* str.strip, str.lower, os.path.splitext and os.path.dirname are computed *)
(* as the library computes them.  Request handlers (start_job, get_status, *)
(* get_previous) run on client threads; run_transcode runs on one          *)
(* background thread per accepted job; stderr_reader runs on one thread    *)
(* per launched encoder; the encoder (ffmpeg) is an external process that  *)
(* writes to two pipes of bounded capacity.                                *)
(***************************************************************************)
EXTENDS Integers, Sequences, FiniteSets, TLC

\* ------------------------------------------------------------------ bounds
NumClients == 2     \* request threads
MaxSubmits == 2     \* start_job calls, in the coordination scenario
MaxLines == 3       \* progress lines one encoder writes
FewLines == 1       \* the same, in the coordination scenario
MaxErrLines == 1    \* diagnostic lines one encoder writes
PipeCap == 1        \* lines an OS pipe buffers before a write blocks
MaxStreams == 3     \* stream descriptors the broad probe lists

Clients == 1..NumClients
Jobs == 1..MaxSubmits

\* ------------------------------------------------------- string primitives
QUOTE == "'"
DQUOTE == "\""

\* str.lower() on one character (the characters the model uses)
LowerChar(c) ==
    CASE c = "M" -> "m"
      [] c = "K" -> "k"
      [] c = "V" -> "v"
      [] c = "E" -> "e"
      [] c = "N" -> "n"
      [] c = "G" -> "g"
      [] OTHER -> c

\* str.lower()
lower(s) == [i \in 1..Len(s) |-> LowerChar(s[i])]

\* str.strip(ch): drop every leading and trailing occurrence of ch
strip(s, ch) ==
    LET keep == {i \in 1..Len(s) : s[i] # ch}
    IN  IF keep = {} THEN <<>>
        ELSE LET lo == CHOOSE i \in keep : \A j \in keep : i <= j
                 hi == CHOOSE i \in keep : \A j \in keep : i >= j
             IN  SubSeq(s, lo, hi)

\* str.rfind(ch), 1-based; 0 when ch does not occur
rfind(s, ch) ==
    LET at == {i \in 1..Len(s) : s[i] = ch}
    IN  IF at = {} THEN 0 ELSE CHOOSE i \in at : \A j \in at : i >= j

\* os.path.splitext(p) = <<base, ext>>: the extension starts at the last dot
\* of the last path component, unless that component has only dots before it
splitext(p) ==
    LET sepIndex == rfind(p, "/")
        dotIndex == rfind(p, ".")
    IN  IF dotIndex > sepIndex
           /\ \E i \in (sepIndex + 1)..(dotIndex - 1) : p[i] # "."
        THEN <<SubSeq(p, 1, dotIndex - 1), SubSeq(p, dotIndex, Len(p))>>
        ELSE <<p, <<>>>>

\* str.rstrip(ch)
rstrip(s, ch) ==
    LET keep == {i \in 1..Len(s) : s[i] # ch}
    IN  IF keep = {} THEN <<>>
        ELSE SubSeq(s, 1, CHOOSE i \in keep : \A j \in keep : i >= j)

\* os.path.dirname(p)
dirname(p) ==
    LET head == SubSeq(p, 1, rfind(p, "/"))
    IN  IF head # <<>> /\ \E k \in 1..Len(head) : head[k] # "/"
        THEN rstrip(head, "/")
        ELSE head

MKV == <<".", "m", "k", "v">>

\* run_transcode step 0: the output path with the MKV extension enforced
EnforceMkv(output_path) ==
    LET base == splitext(output_path)[1]
        ext == splitext(output_path)[2]
    IN  IF lower(ext) # MKV THEN base \o MKV ELSE output_path

\* ------------------------------------------------------------ environment
\* Requests clients send: <<input argument, output argument>>.
Requests ==
    { <<<<"a">>, <<DQUOTE, "o", ".", "m", "p", "4", DQUOTE>>>>,
      <<<<QUOTE, "a", QUOTE>>, <<"o", ".", "M", "K", "V">>>>,
      <<<<"a">>, <<"o", ".", "m", "k", "v">>>>,
      <<<<"a">>, <<"d", "/", "o">>>>,
      <<<<"a">>, <<"d", "/">>>>,
      <<<<"a">>, <<DQUOTE, QUOTE, DQUOTE>>>>,
      <<<<"b">>, <<"o", ".", "m", "k", "v">>>>,
      <<<<DQUOTE, DQUOTE>>, <<"o">>>>,
      <<<<"a">>, <<QUOTE, QUOTE>>>> }

\* The requests of the coordination scenario.
FewRequests ==
    { <<<<"a">>, <<DQUOTE, "o", ".", "m", "p", "4", DQUOTE>>>>,
      <<<<QUOTE, "a", QUOTE>>, <<"o", ".", "M", "K", "V">>>>,
      <<<<"b">>, <<"o", ".", "m", "k", "v">>>>,
      <<<<DQUOTE, DQUOTE>>, <<"o">>>> }

\* The files that exist when the server starts.
InitialFiles == { <<"a">> }

\* Lines the encoder may write to its progress channel (with the newline
\* dropped): a line is a sequence of tokens, "=" being a token of its own.
ProgressLines ==
    { <<"frame", "=", "1">>, <<"frame", "=", "2">>, <<"frame", "=", "abc">>,
      <<"fps", "=", "1.5">>, <<"progress", "=", "end">>, <<"junk">> }

\* The progress lines of the coordination scenario.
FewProgressLines == { <<"frame", "=", "1">>, <<"progress", "=", "end">> }

\* Lines the encoder may write to its diagnostic channel.
DiagLines == { <<"x265 error">> }

\* Exit codes of the encoder process.
ExitCodes == {0, 1}

None == [tag |-> "None"]

\* ------------------------------------------------------- number parsing
\* A JSON key that is missing (dict.get returns None).
ABSENT == <<"<absent>">>

\* int(s): the numerals the model uses; any other text raises ValueError
IntTable ==
    ("0" :> 0) @@ ("1" :> 1) @@ ("2" :> 2) @@ ("3" :> 3) @@ ("30" :> 30)
    @@ ("250" :> 250) @@ ("-1" :> -1)

IsInt(s) == Len(s) = 1 /\ s[1] \in DOMAIN IntTable
IntOf(s) == IntTable[s[1]]

\* float(s), in tenths: every int numeral, and the decimals the model uses
FloatTable ==
    ("1.5" :> 15) @@ ("2.5" :> 25) @@ ("10.0" :> 100) @@ ("0.0" :> 0)

IsFloat(s) == IsInt(s) \/ (Len(s) = 1 /\ s[1] \in DOMAIN FloatTable)
FloatOf(s) == IF IsInt(s) THEN 10 * IntOf(s) ELSE FloatTable[s[1]]

\* str(n) for the stream indexes and exit codes the model uses
DigitStr(n) ==
    CASE n = 0 -> "0" [] n = 1 -> "1" [] n = 2 -> "2" [] n = 3 -> "3"
      [] OTHER -> "?"

\* Trunc rounding down instead of toward zero
TruncIsFloor(a, b) == a \div b

\* int(x) of the quotient a / b (b > 0): truncation toward zero
Trunc(a, b) == IF a >= 0 THEN a \div b ELSE -((-a) \div b)

\* s.split(ch): the pieces of s between occurrences of ch
RECURSIVE split(_, _)
split(s, ch) ==
    LET at == {i \in 1..Len(s) : s[i] = ch}
    IN  IF at = {} THEN <<s>>
        ELSE LET i == CHOOSE k \in at : \A j \in at : k <= j
             IN  <<SubSeq(s, 1, i - 1)>> \o split(SubSeq(s, i + 1, Len(s)), ch)

\* ----------------------------------------------------------- Media Prober
\* The narrow probe's outcome: ok = FALSE when subprocess.run or json.loads
\* raises (missing executable, non-zero exit, malformed output); otherwise
\* streams, each [duration, nb_frames, r_frame_rate] of text or ABSENT.
FrameProbe(ok, streams) == [ok |-> ok, streams |-> streams]
FrameStream(d, n, r) == [duration |-> d, nb_frames |-> n, r_frame_rate |-> r]

\* get_video_duration_frames: <<duration in tenths of a second, total_frames>>
get_video_duration_frames(probe) ==
    IF ~probe.ok THEN <<0, 0>>
    ELSE IF probe.streams = <<>> THEN <<0, 0>>
    ELSE
      LET stream == probe.streams[1]
          duration == stream.duration
          duration_sec ==
              IF duration # ABSENT /\ duration # <<>> /\ IsFloat(duration)
              THEN FloatOf(duration) ELSE 0
          nb_frames == stream.nb_frames
          counted ==
              IF nb_frames # ABSENT /\ nb_frames # <<>> /\ IsInt(nb_frames)
              THEN IntOf(nb_frames) ELSE 0
          r_frame_rate ==
              IF stream.r_frame_rate = ABSENT THEN <<>> ELSE stream.r_frame_rate
          parts == split(r_frame_rate, "/")
          rated ==
              IF /\ \E i \in 1..Len(r_frame_rate) : r_frame_rate[i] = "/"
                 /\ Len(parts) = 2 /\ IsInt(parts[1]) /\ IsInt(parts[2])
                 /\ IntOf(parts[2]) > 0
              THEN Trunc(duration_sec * IntOf(parts[1]), 10 * IntOf(parts[2]))
              ELSE 0
      IN  <<duration_sec,
            IF counted = 0 /\ duration_sec > 0 THEN rated ELSE counted>>

\* The narrow probe outcomes of the coordination scenario.
FewFrameProbes ==
    { FrameProbe(FALSE, <<>>),
      FrameProbe(TRUE, <<FrameStream(<<"10.0">>, <<"3">>, <<"30", "/", "1">>)>>) }

\* The narrow probe outcomes the environment may produce.
FrameProbes ==
    { FrameProbe(FALSE, <<>>),
      FrameProbe(TRUE, <<>>),
      FrameProbe(TRUE, <<FrameStream(<<"10.0">>, <<"3">>, <<"30", "/", "1">>)>>),
      FrameProbe(TRUE, <<FrameStream(<<"1.5">>, <<"N/A">>, <<"2", "/", "1">>)>>) }

\* The texts ffprobe may print for the three entries of the first video
\* stream (ABSENT: the entry is missing).
Durations == { ABSENT, <<>>, <<"10.0">>, <<"1.5">>, <<"2.5">>, <<"0.0">>,
               <<"-1">>, <<"N/A">> }
FrameCounts == { ABSENT, <<>>, <<"250">>, <<"0">>, <<"-1">>, <<"N/A">> }
FrameRates == { ABSENT, <<"30", "/", "1">>, <<"1", "/", "2">>,
                <<"-1", "/", "1">>, <<"1", "/", "0">>, <<"1", "/", "-1">>,
                <<"30">>, <<"x", "/", "1">>, <<"1", "/", "2", "/", "3">> }

\* The narrow probe outcomes of the probing scenario: every combination.
ManyFrameProbes ==
    { FrameProbe(FALSE, <<>>), FrameProbe(TRUE, <<>>) }
    \cup { FrameProbe(TRUE, <<FrameStream(d, n, r)>>) :
              d \in Durations, n \in FrameCounts, r \in FrameRates }

\* ------------------------------------------------------ Encode Plan Builder
\* A stream descriptor of the broad probe; index -1, codec_type "<absent>"
\* and codec_name "<absent>" stand for a missing key, language <<>> for a
\* missing tag.
Stream(i, t, c, l) ==
    [index |-> i, codec_type |-> t, codec_name |-> c, language |-> l]

\* SelectSeq with the streams of one codec type
OfType(streams, t) == SelectSeq(streams, LAMBDA s : s.codec_type = t)

ENGLISH == { <<"e", "n", "g">>, <<"e", "n">>,
             <<"e", "n", "g", "l", "i", "s", "h">> }

\* EnglishAt choosing the last English stream instead of the first
EnglishAtLast(audio_streams) ==
    LET at == {i \in 1..Len(audio_streams) :
                   lower(audio_streams[i].language) \in ENGLISH}
    IN  IF at = {} THEN 0 ELSE CHOOSE i \in at : \A j \in at : i >= j

\* the position in audio_streams of the first English stream, 0 if none
EnglishAt(audio_streams) ==
    LET at == {i \in 1..Len(audio_streams) :
                   lower(audio_streams[i].language) \in ENGLISH}
    IN  IF at = {} THEN 0 ELSE CHOOSE i \in at : \A j \in at : i <= j

\* lines 146-182 raise KeyError: a stream without codec_type, or the chosen
\* English stream without index
PlanRaises(streams) ==
    \/ \E i \in 1..Len(streams) : streams[i].codec_type = "<absent>"
    \/ LET audio_streams == OfType(streams, "audio")
       IN  /\ EnglishAt(audio_streams) # 0
           /\ audio_streams[EnglishAt(audio_streams)].index = -1

\* NeedsConversion asking for every subtitle stream to be mov_text
NeedsConversionAll(subtitle_streams) ==
    \A i \in 1..Len(subtitle_streams) :
        subtitle_streams[i].codec_name = "mov_text"

\* line 178: some subtitle stream has the codec MKV cannot hold
NeedsConversion(subtitle_streams) ==
    \E i \in 1..Len(subtitle_streams) :
        subtitle_streams[i].codec_name = "mov_text"

\* ffmpeg_cmd, each argument a string (a sequence of tokens)
BuildCommand(input_path, output_path, streams) ==
    LET audio_streams == OfType(streams, "audio")
        subtitle_streams == OfType(streams, "subtitle")
        english == EnglishAt(audio_streams)
        audio ==
            IF english # 0
            THEN << <<"-map">>,
                    <<"0:", DigitStr(audio_streams[english].index)>> >>
            ELSE IF audio_streams # <<>> THEN << <<"-map">>, <<"0:a">> >>
            ELSE <<>>
        needs_conversion == NeedsConversion(subtitle_streams)
        subtitles ==
            IF subtitle_streams = <<>> THEN <<>>
            ELSE IF needs_conversion
            THEN << <<"-map">>, <<"0:s">>, <<"-c:s">>, <<"srt">> >>
            ELSE << <<"-map">>, <<"0:s">>, <<"-c:s">>, <<"copy">> >>
    IN  << <<"ffmpeg">>, <<"-y">>, <<"-i">>, input_path,
           <<"-map_metadata">>, <<"0">>, <<"-map">>, <<"0:v:0">>,
           <<"-progress">>, <<"-">>, <<"-nostats">> >>
        \o audio \o subtitles \o
        << <<"-c:v">>, <<"libx265">>, <<"-preset">>, <<"slow">>,
           <<"-tag:v">>, <<"hvc1">>, <<"-pix_fmt">>, <<"yuv420p10le">>,
           <<"-vf">>, <<"scale=-2:1080">>, <<"-c:a">>, <<"aac">>,
           <<"-b:a">>, <<"192k">>, <<"-ac">>, <<"2">>, output_path >>

\* The broad probe's outcome: ok = FALSE when subprocess.run(check=True) or
\* json.loads raises; otherwise the stream list.
StreamProbe(ok, streams) == [ok |-> ok, streams |-> streams]

\* The broad probe outcomes of the coordination scenario.
FewStreamProbes ==
    { StreamProbe(FALSE, <<>>),
      StreamProbe(TRUE, << Stream(0, "video", "h264", <<>>) >>) }

\* The broad probe outcomes the environment may produce.
StreamProbes ==
    { StreamProbe(FALSE, <<>>),
      StreamProbe(TRUE, << Stream(0, "video", "h264", <<>>) >>),
      StreamProbe(TRUE, << Stream(0, "video", "h264", <<>>),
                           Stream(1, "audio", "ac3", <<"f", "r">>),
                           Stream(2, "audio", "aac", <<"E", "N", "G">>),
                           Stream(3, "subtitle", "mov_text", <<>>) >>),
      StreamProbe(TRUE, << Stream(0, "<absent>", "<absent>", <<>>) >>) }

\* The kinds of stream descriptor of the planning scenario: codec_type,
\* codec_name, language tag, and whether the descriptor has an index.
StreamKinds ==
    { [t |-> "video", c |-> "h264", l |-> <<>>, indexed |-> TRUE],
      [t |-> "audio", c |-> "ac3", l |-> <<>>, indexed |-> TRUE],
      [t |-> "audio", c |-> "ac3", l |-> <<"f", "r">>, indexed |-> TRUE],
      [t |-> "audio", c |-> "aac", l |-> <<"E", "N", "G">>, indexed |-> TRUE],
      [t |-> "audio", c |-> "aac", l |-> <<"e", "n">>, indexed |-> TRUE],
      [t |-> "audio", c |-> "aac",
       l |-> <<"E", "n", "g", "l", "i", "s", "h">>, indexed |-> TRUE],
      [t |-> "audio", c |-> "aac", l |-> <<"e", "n", "g">>, indexed |-> FALSE],
      [t |-> "subtitle", c |-> "mov_text", l |-> <<"e", "n", "g">>,
       indexed |-> TRUE],
      [t |-> "subtitle", c |-> "subrip", l |-> <<>>, indexed |-> TRUE],
      [t |-> "subtitle", c |-> "<absent>", l |-> <<>>, indexed |-> TRUE],
      [t |-> "<absent>", c |-> "<absent>", l |-> <<>>, indexed |-> TRUE] }

\* the stream list of the given kinds, indexed from 0 as ffprobe does
StreamList(kinds) ==
    [i \in 1..Len(kinds) |->
        Stream(IF kinds[i].indexed THEN i - 1 ELSE -1,
               kinds[i].t, kinds[i].c, kinds[i].l)]

\* The broad probe outcomes of the planning scenario: a failure, and every
\* list of up to MaxStreams descriptors.
ManyStreamProbes ==
    { StreamProbe(FALSE, <<>>) }
    \cup { StreamProbe(TRUE, StreamList(kinds)) :
              kinds \in UNION { [1..n -> StreamKinds] : n \in 0..MaxStreams } }

\* str(e) of the exceptions run_transcode can catch
FileNotFoundMsg(input_path) == <<"Input file not found: ">> \o input_path
MakedirsMsg(output_dir) == <<"[Errno 13] Permission denied: ">> \o output_dir
ProbeErrorMsg == <<"Command '['ffprobe', ...]' returned non-zero exit status 1.">>
KeyErrorMsg == <<"'codec_type' or 'index'">>
PopenErrorMsg == <<"[Errno 2] No such file or directory: 'ffmpeg'">>

RECURSIVE Join(_)
Join(args) == IF args = <<>> THEN <<>> ELSE Head(args) \o <<" ">> \o Join(Tail(args))

\* str(subprocess.CalledProcessError(returncode, ffmpeg_cmd))
CalledProcessErrorMsg(returncode, cmd) ==
    <<"Command '">> \o Join(cmd)
    \o <<"' returned non-zero exit status ", DigitStr(returncode), ".">>

\* ------------------------------------------------------------------ state
VARIABLES
    CURRENT_JOB,    \* the active slot: None or the Job dict
    PREVIOUS_JOB,   \* the previous result: None or the record dict
    JOB_LOCK,       \* the holder of threading.Lock, or Free
    client,         \* per request thread: position, arguments, response
    task,           \* per accepted job: run_transcode's position and locals
    proc,           \* per accepted job: its encoder process and two pipes
    reader,         \* per accepted job: its stderr_reader thread and log
    fs,             \* the files that exist (os.path.exists)
    now,            \* the last value time.time() returned
    submits,        \* start_job calls made so far
    accepted,       \* history: jobs installed so far (job ids are 1..accepted)
    recorded,       \* history: terminal outcomes recorded by each job's task
    slotJob,        \* history: the id of the job in the active slot, 0 if none
    prevJob         \* history: the id of the job of the previous result, or 0

vars == <<CURRENT_JOB, PREVIOUS_JOB, JOB_LOCK, client, task, proc, reader,
          fs, now, submits, accepted, recorded, slotJob, prevJob>>

Free == <<"free", 0>>
ClientThread(c) == <<"client", c>>
TaskThread(j) == <<"task", j>>

\* busyAtCall is history: whether the slot was taken when start_job was called
IdleClient ==
    [pc |-> "idle", input |-> <<>>, output |-> <<>>, job |-> 0, resp |-> None,
     busyAtCall |-> FALSE]

\* probe and streams are history: what the two probes last answered (a
\* sequence of one answer, empty when none is held), kept while the task
\* publishes or uses the answer
NoTask ==
    [pc |-> "none", input_path |-> <<>>, output_path |-> <<>>,
     total_frames |-> 0, ffmpeg_cmd |-> <<>>, key |-> <<>>, value |-> <<>>,
     exc |-> <<>>, probe |-> <<>>, streams |-> <<>>]

NoProc ==
    [state |-> "none", todo |-> 0, errtodo |-> 0, stdout |-> <<>>,
     stderr |-> <<>>, returncode |-> 0]

NoReader == [pc |-> "none", log |-> <<>>]

Init ==
    /\ CURRENT_JOB = None
    /\ PREVIOUS_JOB = None
    /\ JOB_LOCK = Free
    /\ client = [c \in Clients |-> IdleClient]
    /\ task = [j \in Jobs |-> NoTask]
    /\ proc = [j \in Jobs |-> NoProc]
    /\ reader = [j \in Jobs |-> NoReader]
    /\ fs = InitialFiles
    /\ now = 0
    /\ submits = 0
    /\ accepted = 0
    /\ recorded = [j \in Jobs |-> 0]
    /\ slotJob = 0
    /\ prevJob = 0

\* ------------------------------------------------------------ HTTP replies
HTTPException(status_code, detail) ==
    [status_code |-> status_code, detail |-> detail]

Accepted202 == [status_code |-> 202, message |-> "Transcoding started"]

\* get_status's reply, computed from the slot
StatusReply(job) ==
    IF job # None
    THEN [busy |-> TRUE, input |-> job.input, output |-> job.output,
          fps |-> job.fps, frames_processed |-> job.frames_processed,
          total_frames |-> job.total_frames, status |-> job.status]
    ELSE [busy |-> FALSE, status |-> "idle"]

\* get_previous's reply, computed from the previous result
PreviousReply(prev) ==
    IF prev # None THEN prev
    ELSE [status |-> "none", message |-> "No previous jobs recorded"]

\* NewJob with the status the background task sets first
NewJobAnalyzing(input_path, output_path) ==
    [input |-> input_path, output |-> output_path, status |-> "analyzing",
     fps |-> 0, frames_processed |-> 0, total_frames |-> 0]

\* the Job dict start_job installs
NewJob(input_path, output_path) ==
    [input |-> input_path, output |-> output_path, status |-> "starting",
     fps |-> 0, frames_processed |-> 0, total_frames |-> 0]

\* start_job line 297: the slot is taken
SlotTakenNever(job) == FALSE
SlotTaken(job) == job # None

\* ------------------------------------------------------------- start_job
\* lines 286-294: a client calls start_job(input, output): strip quotes,
\* reject empty arguments and a missing input
StartJobValidate(c, sc) ==
    /\ client[c].pc = "idle"
    /\ submits < sc.submits
    /\ submits' = submits + 1
    /\ \E r \in sc.requests :
         LET input_path == strip(strip(r[1], QUOTE), DQUOTE)
             output_path == strip(strip(r[2], QUOTE), DQUOTE)
         IN  client' = [client EXCEPT ![c] =
               IF input_path = <<>> \/ output_path = <<>>
               THEN [@ EXCEPT !.pc = "ret", !.resp =
                       HTTPException(400, <<"Missing input or output parameters">>),
                       !.busyAtCall = CURRENT_JOB # None]
               ELSE IF input_path \notin fs
               THEN [@ EXCEPT !.pc = "ret", !.resp =
                       HTTPException(400, <<"Input file not found: ">> \o input_path),
                       !.busyAtCall = CURRENT_JOB # None]
               ELSE [@ EXCEPT !.pc = "L296", !.input = input_path,
                              !.output = output_path,
                              !.busyAtCall = CURRENT_JOB # None]]
    /\ UNCHANGED <<CURRENT_JOB, PREVIOUS_JOB, JOB_LOCK, task, proc, reader,
                   fs, now, accepted, recorded, slotJob, prevJob>>

\* line 296: with JOB_LOCK (acquire)
StartJobLock(c) ==
    /\ client[c].pc = "L296"
    /\ JOB_LOCK = Free
    /\ JOB_LOCK' = ClientThread(c)
    /\ client' = [client EXCEPT ![c].pc = "L297"]
    /\ UNCHANGED <<CURRENT_JOB, PREVIOUS_JOB, task, proc, reader, fs, now,
                   submits, accepted, recorded, slotJob, prevJob>>

\* StartJobInstall with the busy branch overwriting the active Job
StartJobInstallClobbers(c) ==
    /\ client[c].pc = "L297"
    /\ JOB_LOCK' = Free
    /\ CURRENT_JOB' = NewJob(client[c].input, client[c].output)
    /\ IF SlotTaken(CURRENT_JOB)
       THEN /\ client' = [client EXCEPT ![c].pc = "ret", ![c].resp =
                   HTTPException(409,
                       <<"Server is busy with another transcoding request">>)]
            /\ UNCHANGED <<accepted, slotJob>>
       ELSE /\ accepted' = accepted + 1
            /\ slotJob' = accepted + 1
            /\ client' = [client EXCEPT ![c].pc = "L311",
                                        ![c].job = accepted + 1]
    /\ UNCHANGED <<PREVIOUS_JOB, task, proc, reader, fs, now, submits,
                   recorded, prevJob>>

\* lines 297-308: reject when busy, else install the Job; release the lock
StartJobInstall(c) ==
    /\ client[c].pc = "L297"
    /\ JOB_LOCK' = Free
    /\ IF SlotTaken(CURRENT_JOB)
       THEN /\ client' = [client EXCEPT ![c].pc = "ret", ![c].resp =
                   HTTPException(409,
                       <<"Server is busy with another transcoding request">>)]
            /\ UNCHANGED <<CURRENT_JOB, accepted, slotJob>>
       ELSE /\ CURRENT_JOB' = NewJob(client[c].input, client[c].output)
            /\ accepted' = accepted + 1
            /\ slotJob' = accepted + 1
            /\ client' = [client EXCEPT ![c].pc = "L311",
                                        ![c].job = accepted + 1]
    /\ UNCHANGED <<PREVIOUS_JOB, task, proc, reader, fs, now, submits,
                   recorded, prevJob>>

\* lines 311-315: start the background thread, reply 202
StartJobThread(c) ==
    /\ client[c].pc = "L311"
    /\ task' = [task EXCEPT ![client[c].job] =
                  [NoTask EXCEPT !.pc = "L106",
                                 !.input_path = client[c].input,
                                 !.output_path = client[c].output]]
    /\ client' = [client EXCEPT ![c].pc = "ret", ![c].resp = Accepted202]
    /\ UNCHANGED <<CURRENT_JOB, PREVIOUS_JOB, JOB_LOCK, proc, reader, fs, now,
                   submits, accepted, recorded, slotJob, prevJob>>

\* the handler has returned: the reply is sent and the thread is free again
Return(c) ==
    /\ client[c].pc = "ret"
    /\ client' = [client EXCEPT ![c] = IdleClient]
    /\ UNCHANGED <<CURRENT_JOB, PREVIOUS_JOB, JOB_LOCK, task, proc, reader,
                   fs, now, submits, accepted, recorded, slotJob, prevJob>>

\* ---------------------------------------------- get_status, get_previous
CallGetStatus(c) ==
    /\ client[c].pc = "idle"
    /\ client' = [client EXCEPT ![c].pc = "L327"]
    /\ UNCHANGED <<CURRENT_JOB, PREVIOUS_JOB, JOB_LOCK, task, proc, reader,
                   fs, now, submits, accepted, recorded, slotJob, prevJob>>

\* line 327: with JOB_LOCK (acquire)
GetStatusLock(c) ==
    /\ client[c].pc = "L327"
    /\ JOB_LOCK = Free
    /\ JOB_LOCK' = ClientThread(c)
    /\ client' = [client EXCEPT ![c].pc = "L328"]
    /\ UNCHANGED <<CURRENT_JOB, PREVIOUS_JOB, task, proc, reader, fs, now,
                   submits, accepted, recorded, slotJob, prevJob>>

\* lines 328-342: reply StatusReply(CURRENT_JOB); release the lock and return
GetStatusRead(c) ==
    /\ client[c].pc = "L328"
    /\ JOB_LOCK' = Free
    /\ client' = [client EXCEPT ![c] = IdleClient]
    /\ UNCHANGED <<CURRENT_JOB, PREVIOUS_JOB, task, proc, reader, fs, now,
                   submits, accepted, recorded, slotJob, prevJob>>

CallGetPrevious(c) ==
    /\ client[c].pc = "idle"
    /\ client' = [client EXCEPT ![c].pc = "L346"]
    /\ UNCHANGED <<CURRENT_JOB, PREVIOUS_JOB, JOB_LOCK, task, proc, reader,
                   fs, now, submits, accepted, recorded, slotJob, prevJob>>

\* line 346: with JOB_LOCK (acquire)
GetPreviousLock(c) ==
    /\ client[c].pc = "L346"
    /\ JOB_LOCK = Free
    /\ JOB_LOCK' = ClientThread(c)
    /\ client' = [client EXCEPT ![c].pc = "L347"]
    /\ UNCHANGED <<CURRENT_JOB, PREVIOUS_JOB, task, proc, reader, fs, now,
                   submits, accepted, recorded, slotJob, prevJob>>

\* lines 347-353: reply PreviousReply(PREVIOUS_JOB); release the lock and
\* return
GetPreviousRead(c) ==
    /\ client[c].pc = "L347"
    /\ JOB_LOCK' = Free
    /\ client' = [client EXCEPT ![c] = IdleClient]
    /\ UNCHANGED <<CURRENT_JOB, PREVIOUS_JOB, task, proc, reader, fs, now,
                   submits, accepted, recorded, slotJob, prevJob>>

\* ---------------------------------------------------------- run_transcode
\* with JOB_LOCK (acquire): the task waiting at `at` enters the block `in`
TaskLock(j, at, in) ==
    /\ task[j].pc = at
    /\ JOB_LOCK = Free
    /\ JOB_LOCK' = TaskThread(j)
    /\ task' = [task EXCEPT ![j].pc = in]
    /\ UNCHANGED <<CURRENT_JOB, PREVIOUS_JOB, client, proc, reader, fs, now,
                   submits, accepted, recorded, slotJob, prevJob>>

\* a locked block of the form `if CURRENT_JOB: CURRENT_JOB[field] = v`
TaskSet(j, in, field, v, next) ==
    /\ task[j].pc = in
    /\ JOB_LOCK' = Free
    /\ CURRENT_JOB' = IF CURRENT_JOB # None
                      THEN [CURRENT_JOB EXCEPT ![field] = v]
                      ELSE CURRENT_JOB
    /\ task' = [task EXCEPT ![j].pc = next]
    /\ UNCHANGED <<PREVIOUS_JOB, client, proc, reader, fs, now, submits,
                   accepted, recorded, slotJob, prevJob>>

\* a step of the task that touches only its own locals
TaskLocal(j, at, t) ==
    /\ task[j].pc = at
    /\ task' = [task EXCEPT ![j] = t]
    /\ UNCHANGED <<CURRENT_JOB, PREVIOUS_JOB, JOB_LOCK, client, proc, reader,
                   fs, now, submits, accepted, recorded, slotJob, prevJob>>

\* an exception is raised inside the try block: control goes to line 270
Raise(t, msg) == [t EXCEPT !.pc = "L270", !.exc = msg]

\* lines 106-108: status becomes analyzing
LockAnalyzing(j) == TaskLock(j, "L106", "L107")
\* SetAnalyzing writing what the comment of line 105 says
SetAnalyzingWritesStarting(j) ==
    TaskSet(j, "L107", "status", "starting", "L112")
SetAnalyzing(j) == TaskSet(j, "L107", "status", "analyzing", "L112")

\* lines 112-115: enforce the MKV extension on the local output_path
Normalize(j) ==
    LET out == EnforceMkv(task[j].output_path)
    IN  TaskLocal(j, "L112",
            [task[j] EXCEPT !.output_path = out,
                            !.pc = IF out # task[j].output_path
                                   THEN "L116" ELSE "L121"])

\* lines 116-118: publish the corrected output path
LockOutput(j) == TaskLock(j, "L116", "L117")
\* SetOutput without line 118: the Job keeps the submitted output
SetOutputKeepsSubmitted(j) ==
    TaskSet(j, "L117", "output", CURRENT_JOB.output, "L121")
SetOutput(j) == TaskSet(j, "L117", "output", task[j].output_path, "L121")

\* Validate without the check of line 121
ValidateIgnoresMissing(j) ==
    TaskLocal(j, "L121", [task[j] EXCEPT !.pc = "L127"])

\* lines 121-122: the input must still exist
Validate(j) ==
    TaskLocal(j, "L121",
        IF task[j].input_path \notin fs
        THEN Raise(task[j], FileNotFoundMsg(task[j].input_path))
        ELSE [task[j] EXCEPT !.pc = "L127"])

\* lines 127-130: create the output directory when it is named and missing;
\* whether it exists and whether makedirs succeeds is the environment's choice
EnsureOutputDir(j) ==
    LET output_dir == dirname(task[j].output_path)
    IN  \E outcome \in {"exists", "created", "error"} :
          /\ output_dir = <<>> => outcome = "exists"
          /\ TaskLocal(j, "L127",
                 IF outcome = "error"
                 THEN Raise(task[j], MakedirsMsg(output_dir))
                 ELSE [task[j] EXCEPT !.pc = "L134"])

\* line 134: the frame-count probe (blocking); its failures are caught inside
ProbeFrames(j, sc) ==
    \E probe \in sc.frameProbes :
        TaskLocal(j, "L134",
            [task[j] EXCEPT !.total_frames = get_video_duration_frames(probe)[2],
                            !.probe = <<probe>>,
                            !.pc = "L135"])

\* lines 135-137: publish total_frames
LockTotal(j) == TaskLock(j, "L135", "L136")
SetTotal(j) == TaskSet(j, "L136", "total_frames", task[j].total_frames, "L143")

\* what line 143-194 do with the broad probe's outcome: raise, or build the
\* encoder command
AfterStreamProbe(t, sp) ==
    IF ~sp.ok THEN Raise([t EXCEPT !.probe = <<>>], ProbeErrorMsg)
    ELSE IF PlanRaises(sp.streams)
    THEN Raise([t EXCEPT !.probe = <<>>], KeyErrorMsg)
    ELSE [t EXCEPT !.ffmpeg_cmd =
                       BuildCommand(t.input_path, t.output_path, sp.streams),
                   !.probe = <<>>,
                   !.streams = <<sp.streams>>,
                   !.pc = "L200"]

\* lines 143-194: the stream probe (blocking) and the plan
ProbeStreams(j, sc) ==
    \E sp \in sc.streamProbes : TaskLocal(j, "L143", AfterStreamProbe(task[j], sp))

\* lines 200-202: status becomes transcoding
LockTranscoding(j) == TaskLock(j, "L200", "L201")
SetTranscoding(j) == TaskSet(j, "L201", "status", "transcoding", "L205")

\* lines 205-210: launch the encoder (blocking); Popen raises when the
\* executable is missing.  The launched encoder has todo progress lines and
\* errtodo diagnostic lines to write before it exits.
Launch(j, sc) ==
    /\ task[j].pc = "L205"
    /\ \/ /\ task' = [task EXCEPT ![j] =
                      Raise([task[j] EXCEPT !.streams = <<>>], PopenErrorMsg)]
          /\ UNCHANGED proc
       \/ /\ task' = [task EXCEPT ![j].pc = "L215", ![j].streams = <<>>]
          /\ \E n \in 0..sc.lines, e \in 0..MaxErrLines :
               proc' = [proc EXCEPT ![j] =
                          [NoProc EXCEPT !.state = "running", !.todo = n,
                                         !.errtodo = e]]
    /\ UNCHANGED <<CURRENT_JOB, PREVIOUS_JOB, JOB_LOCK, client, reader, fs,
                   now, submits, accepted, recorded, slotJob, prevJob>>

\* lines 215-217: start the stderr_reader thread
StartReader(j) ==
    /\ task[j].pc = "L215"
    /\ task' = [task EXCEPT ![j].pc = "L221"]
    /\ reader' = [reader EXCEPT ![j].pc = "running"]
    /\ UNCHANGED <<CURRENT_JOB, PREVIOUS_JOB, JOB_LOCK, client, proc, fs, now,
                   submits, accepted, recorded, slotJob, prevJob>>

\* the position of the first "=" of a line, 0 if none
EqAt(line) ==
    LET at == {i \in 1..Len(line) : line[i] = "="}
    IN  IF at = {} THEN 0 ELSE CHOOSE i \in at : \A k \in at : i <= k

\* lines 221-233: read one progress line (blocking): end of file ends the
\* loop, a blank line or a line without "=" is skipped, any other line is
\* split at its first "="
ReadLine(j) ==
    /\ task[j].pc = "L221"
    /\ IF proc[j].stdout # <<>>
       THEN LET line == Head(proc[j].stdout)
            IN  /\ proc' = [proc EXCEPT ![j].stdout = Tail(@)]
                /\ task' = [task EXCEPT ![j] =
                     IF EqAt(line) = 0 THEN @
                     ELSE [@ EXCEPT !.key = SubSeq(line, 1, EqAt(line) - 1),
                                    !.value = SubSeq(line, EqAt(line) + 1,
                                                     Len(line)),
                                    !.pc = "L235"]]
       ELSE /\ proc[j].state = "exited"
            /\ task' = [task EXCEPT ![j].pc = "L251"]
            /\ UNCHANGED proc
    /\ UNCHANGED <<CURRENT_JOB, PREVIOUS_JOB, JOB_LOCK, client, reader, fs,
                   now, submits, accepted, recorded, slotJob, prevJob>>

\* ApplyProgress with an unparsable frame value resetting the count
ApplyProgressResets(job, key, value) ==
    IF key = <<"frame">>
    THEN [job EXCEPT !.frames_processed = IF IsInt(value) THEN IntOf(value) ELSE 0]
    ELSE IF key = <<"fps">> /\ IsFloat(value)
    THEN [job EXCEPT !.fps = FloatOf(value)]
    ELSE job

\* lines 236-246: the Job after a progress line <<key, value>>
ApplyProgress(job, key, value) ==
    IF key = <<"frame">> /\ IsInt(value)
    THEN [job EXCEPT !.frames_processed = IntOf(value)]
    ELSE IF key = <<"fps">> /\ IsFloat(value)
    THEN [job EXCEPT !.fps = FloatOf(value)]
    ELSE job

\* lines 247-249: the line that ends the read loop
EndsLoop(key, value) == key = <<"progress">> /\ value = <<"end">>

\* lines 235-249: apply the progress line under the lock (key and value are
\* not read again before the next line overwrites them)
LockProgress(j) == TaskLock(j, "L235", "L236")
\* UpdateProgress with the read of the next line inside the locked block
UpdateProgressKeepsLock(j) ==
    /\ task[j].pc = "L236"
    /\ JOB_LOCK' = JOB_LOCK
    /\ CURRENT_JOB' = IF CURRENT_JOB # None
                      THEN ApplyProgress(CURRENT_JOB, task[j].key, task[j].value)
                      ELSE CURRENT_JOB
    /\ task' = [task EXCEPT ![j].key = <<>>, ![j].value = <<>>, ![j].pc =
                  IF CURRENT_JOB # None /\ EndsLoop(task[j].key, task[j].value)
                  THEN "L251" ELSE "L221"]
    /\ UNCHANGED <<PREVIOUS_JOB, client, proc, reader, fs, now, submits,
                   accepted, recorded, slotJob, prevJob>>
UpdateProgress(j) ==
    /\ task[j].pc = "L236"
    /\ JOB_LOCK' = Free
    /\ CURRENT_JOB' = IF CURRENT_JOB # None
                      THEN ApplyProgress(CURRENT_JOB, task[j].key, task[j].value)
                      ELSE CURRENT_JOB
    /\ task' = [task EXCEPT ![j].key = <<>>, ![j].value = <<>>, ![j].pc =
                  IF CURRENT_JOB # None /\ EndsLoop(task[j].key, task[j].value)
                  THEN "L251" ELSE "L221"]
    /\ UNCHANGED <<PREVIOUS_JOB, client, proc, reader, fs, now, submits,
                   accepted, recorded, slotJob, prevJob>>

\* Wait without the check of line 254
WaitIgnoresReturnCode(j) ==
    /\ proc[j].state = "exited"
    /\ TaskLocal(j, "L251", [task[j] EXCEPT !.pc = "L259"])

\* lines 251-256: wait for the encoder to exit (blocking); a non-zero return
\* code raises CalledProcessError
Wait(j) ==
    /\ proc[j].state = "exited"
    /\ TaskLocal(j, "L251",
           IF proc[j].returncode # 0
           THEN Raise(task[j], CalledProcessErrorMsg(proc[j].returncode,
                                                     task[j].ffmpeg_cmd))
           ELSE [task[j] EXCEPT !.pc = "L259"])

\* the previous-result records of lines 260-265 and 273-279
SuccessRecord(t, timestamp) ==
    [input |-> t.input_path, output |-> t.output_path, status |-> "success",
     timestamp |-> timestamp]

FailedRecord(t, timestamp) ==
    [input |-> t.input_path, output |-> t.output_path, status |-> "failed",
     error |-> t.exc, timestamp |-> timestamp]

\* Handoff with the thread running its body again instead of ending
HandoffRunsOn(j, in, prev, cur) ==
    /\ task[j].pc = in
    /\ JOB_LOCK' = Free
    /\ now' = now + 1
    /\ PREVIOUS_JOB' = prev
    /\ CURRENT_JOB' = cur
    /\ recorded' = [recorded EXCEPT ![j] = 1]
    /\ slotJob' = IF cur = None THEN 0 ELSE slotJob
    /\ prevJob' = j
    /\ task' = [task EXCEPT ![j].pc = "L106"]
    /\ UNCHANGED <<client, proc, reader, fs, submits, accepted>>

\* the terminal handoff: record the outcome prev and leave cur in the slot,
\* in one locked block; the clock is read only here, so time.time() is the
\* number of the reading; the thread then ends and its locals are gone
Handoff(j, in, prev, cur) ==
    /\ task[j].pc = in
    /\ JOB_LOCK' = Free
    /\ now' = now + 1
    /\ PREVIOUS_JOB' = prev
    /\ CURRENT_JOB' = cur
    /\ recorded' = [recorded EXCEPT ![j] = @ + 1]
    /\ slotJob' = IF cur = None THEN 0 ELSE slotJob
    /\ prevJob' = j
    /\ task' = [task EXCEPT ![j] = [NoTask EXCEPT !.pc = "done"]]
    /\ UNCHANGED <<client, proc, reader, fs, submits, accepted>>

\* lines 259-266: success
LockSuccess(j) == TaskLock(j, "L259", "L260")
\* RecordSuccess without lines 260-265: the previous result is not written
RecordSuccessKeepsPrevious(j) == Handoff(j, "L260", PREVIOUS_JOB, None)
RecordSuccess(j) == Handoff(j, "L260", SuccessRecord(task[j], now + 1), None)

\* lines 270-280: any exception of the try block: failed
LockFailed(j) == TaskLock(j, "L270", "L273")
\* RecordFailed without line 280: the slot is not cleared
RecordFailedKeepsSlot(j) ==
    Handoff(j, "L273", FailedRecord(task[j], now + 1), CURRENT_JOB)
RecordFailed(j) == Handoff(j, "L273", FailedRecord(task[j], now + 1), None)

\* ------------------------------------------------------------ stderr_reader
\* lines 93-96: read and log one diagnostic line (blocking); end of file
\* ends the thread
ReaderStep(j) ==
    /\ reader[j].pc = "running"
    /\ IF proc[j].stderr # <<>>
       THEN /\ reader' = [reader EXCEPT ![j].log = Append(@, Head(proc[j].stderr))]
            /\ proc' = [proc EXCEPT ![j].stderr = Tail(@)]
       ELSE /\ proc[j].state = "exited"
            /\ reader' = [reader EXCEPT ![j].pc = "done"]
            /\ UNCHANGED proc
    /\ UNCHANGED <<CURRENT_JOB, PREVIOUS_JOB, JOB_LOCK, client, task, fs, now,
                   submits, accepted, recorded, slotJob, prevJob>>

\* ------------------------------------------------- the encoder process
\* the encoder writes a progress line; the write blocks while the pipe is full
EncoderWrite(j, sc) ==
    /\ proc[j].state = "running"
    /\ proc[j].todo > 0
    /\ Len(proc[j].stdout) < PipeCap
    /\ \E line \in sc.progressLines :
         proc' = [proc EXCEPT ![j].stdout = Append(@, line),
                              ![j].todo = @ - 1]
    /\ UNCHANGED <<CURRENT_JOB, PREVIOUS_JOB, JOB_LOCK, client, task, reader,
                   fs, now, submits, accepted, recorded, slotJob, prevJob>>

\* the encoder writes a diagnostic line; the write blocks while the pipe is
\* full
EncoderWriteErr(j) ==
    /\ proc[j].state = "running"
    /\ proc[j].errtodo > 0
    /\ Len(proc[j].stderr) < PipeCap
    /\ \E line \in DiagLines :
         proc' = [proc EXCEPT ![j].stderr = Append(@, line),
                              ![j].errtodo = @ - 1]
    /\ UNCHANGED <<CURRENT_JOB, PREVIOUS_JOB, JOB_LOCK, client, task, reader,
                   fs, now, submits, accepted, recorded, slotJob, prevJob>>

\* the encoder exits once it has written all its output
EncoderExit(j) ==
    /\ proc[j].state = "running"
    /\ proc[j].todo = 0
    /\ proc[j].errtodo = 0
    /\ \E rc \in ExitCodes :
         proc' = [proc EXCEPT ![j].state = "exited", ![j].returncode = rc]
    /\ UNCHANGED <<CURRENT_JOB, PREVIOUS_JOB, JOB_LOCK, client, task, reader,
                   fs, now, submits, accepted, recorded, slotJob, prevJob>>

\* ------------------------------------------------------- the file system
\* a file is removed by someone else
RemoveFile ==
    /\ \E f \in fs : fs' = fs \ {f}
    /\ UNCHANGED <<CURRENT_JOB, PREVIOUS_JOB, JOB_LOCK, client, task, proc,
                   reader, now, submits, accepted, recorded, slotJob, prevJob>>

\* ------------------------------------------------------------ specification
\* A scenario bounds what the environment does: how many start_job calls are
\* made and with which arguments, what the probes answer, what the encoder
\* writes.
Scenario(n, requests, frameProbes, streamProbes, lines, progressLines) ==
    [submits |-> n, requests |-> requests, frameProbes |-> frameProbes,
     streamProbes |-> streamProbes, lines |-> lines,
     progressLines |-> progressLines]

ClientStep(c, sc) ==
    \/ StartJobValidate(c, sc) \/ StartJobLock(c)
    \/ StartJobInstall(c) \/ StartJobThread(c)
    \/ CallGetStatus(c) \/ GetStatusLock(c) \/ GetStatusRead(c)
    \/ CallGetPrevious(c) \/ GetPreviousLock(c) \/ GetPreviousRead(c)
    \/ Return(c)

TaskStep(j, sc) ==
    \/ LockAnalyzing(j) \/ SetAnalyzing(j) \/ Normalize(j)
    \/ LockOutput(j) \/ SetOutput(j) \/ Validate(j) \/ EnsureOutputDir(j)
    \/ ProbeFrames(j, sc) \/ LockTotal(j) \/ SetTotal(j) \/ ProbeStreams(j, sc)
    \/ LockTranscoding(j) \/ SetTranscoding(j) \/ Launch(j, sc)
    \/ StartReader(j)
    \/ ReadLine(j) \/ LockProgress(j) \/ UpdateProgress(j) \/ Wait(j)
    \/ LockSuccess(j) \/ RecordSuccess(j) \/ LockFailed(j) \/ RecordFailed(j)

EncoderStep(j, sc) ==
    EncoderWrite(j, sc) \/ EncoderWriteErr(j) \/ EncoderExit(j)

NextIn(clients, sc) ==
    \/ \E c \in clients : ClientStep(c, sc)
    \/ \E j \in Jobs : TaskStep(j, sc)
    \/ \E j \in Jobs : ReaderStep(j)
    \/ \E j \in Jobs : EncoderStep(j, sc)

\* The coordination scenario: every request thread, several start_job
\* calls, few kinds of data, no file removed.
Coordination ==
    Scenario(MaxSubmits, FewRequests, FewFrameProbes, FewStreamProbes,
             FewLines, FewProgressLines)

Next == NextIn(Clients, Coordination)

Spec == Init /\ [][Next]_vars

\* The single-job scenario: one request thread, one start_job call, every
\* kind of data, files removed at any time.
SingleJob ==
    Scenario(1, Requests, FrameProbes, StreamProbes, MaxLines, ProgressLines)

NextJob == NextIn({1}, SingleJob) \/ RemoveFile

SpecJob == Init /\ [][NextJob]_vars

\* The scheduling scenario: one request thread, one start_job call, few
\* kinds of data, an encoder that writes up to MaxLines progress lines.
Scheduling ==
    Scenario(1, FewRequests, FewFrameProbes, FewStreamProbes, MaxLines,
             FewProgressLines)

NextFair == NextIn({1}, Scheduling)

\* the steps of a handler that has been called and has passed its checks
HandlerStep(c) ==
    \/ StartJobLock(c) \/ StartJobInstall(c) \/ StartJobThread(c)
    \/ GetStatusLock(c) \/ GetStatusRead(c)
    \/ GetPreviousLock(c) \/ GetPreviousRead(c) \/ Return(c)

\* Fair scheduling: a thread that can run does run (strongly for the
\* background task, which competes for the lock with the handlers); an
\* encoder that can write or exit does.
FairSpec ==
    /\ Init /\ [][NextFair]_vars
    /\ \A c \in Clients : WF_vars(HandlerStep(c))
    /\ \A j \in Jobs : SF_vars(TaskStep(j, Scheduling))
    /\ \A j \in Jobs : WF_vars(ReaderStep(j))
    /\ \A j \in Jobs : WF_vars(EncoderStep(j, Scheduling))

\* The probing scenario: one request thread, one start_job call, every
\* combination of probe answers, few progress lines.
Probing ==
    Scenario(1, FewRequests, ManyFrameProbes, FewStreamProbes, FewLines,
             FewProgressLines)

NextProbe == NextIn({1}, Probing)

SpecProbe == Init /\ [][NextProbe]_vars

\* The planning scenario: one request thread, one start_job call, every
\* list of stream descriptors, few progress lines.
Planning ==
    Scenario(1, FewRequests, FewFrameProbes, ManyStreamProbes, FewLines,
             FewProgressLines)

NextPlan == NextIn({1}, Planning)

SpecPlan == Init /\ [][NextPlan]_vars

\* The scheduling scenario with files removed at any time.
NextRemoval == NextFair \/ RemoveFile

RemovalSpec ==
    /\ Init /\ [][NextRemoval]_vars
    /\ \A c \in Clients : WF_vars(HandlerStep(c))
    /\ \A j \in Jobs : SF_vars(TaskStep(j, Scheduling))
    /\ \A j \in Jobs : WF_vars(ReaderStep(j))
    /\ \A j \in Jobs : WF_vars(EncoderStep(j, Scheduling))

\* ================================================================ claims
\* the accepted jobs whose terminal outcome is not yet recorded
ActiveJobs == {j \in Jobs : j <= accepted /\ recorded[j] = 0}

BusyDetail == <<"Server is busy with another transcoding request">>

\* C1: at most one accepted job is between its acceptance and its terminal
\* handoff, the slot is occupied exactly while there is one, and a submit
\* is accepted only when the slot is clear and every earlier job's terminal
\* outcome has been recorded.
C1_SingleActiveJob ==
    /\ [](Cardinality(ActiveJobs) <= 1)
    /\ []((CURRENT_JOB # None) <=> (ActiveJobs # {}))
    /\ [][accepted' # accepted =>
            /\ CURRENT_JOB = None
            /\ \A j \in 1..accepted : recorded[j] = 1
            /\ accepted > 0 => (PREVIOUS_JOB # None /\ prevJob = accepted)]_vars

\* C1 witness: a second job is accepted after the first one's handoff, while
\* another start_job call waits for the lock.
C1_Witness ==
    /\ accepted = 2 /\ recorded[1] = 1 /\ CURRENT_JOB # None
    /\ \E c \in Clients : client[c].pc = "L311"

\* C2 as stated: every start_job call made while a Job occupies the slot
\* returns 409.
C2_BusyCallReturns409 ==
    \A c \in Clients :
        client[c].busyAtCall =>
            /\ client[c].pc # "L311"
            /\ client[c].pc = "ret" => client[c].resp.status_code = 409

\* C2 amended: a start_job call that reaches the slot check (line 297) while
\* a Job occupies the slot returns 409; a call rejected by the argument
\* checks returns 400 whether or not a Job is active; in both cases the
\* active Job is left unchanged.
C2_BusyAtSlotCheck ==
    [][\A c \in Clients :
         /\ (client[c].pc = "L297" /\ client'[c].pc # "L297"
                /\ CURRENT_JOB # None)
            => /\ client'[c].pc = "ret"
               /\ client'[c].resp = HTTPException(409, BusyDetail)
               /\ CURRENT_JOB' = CURRENT_JOB
         /\ (client[c].pc = "idle" /\ client'[c].pc = "ret")
            => /\ client'[c].resp.status_code = 400
               /\ CURRENT_JOB' = CURRENT_JOB]_vars

\* C2 witness: a call was rejected as busy and the job that made it busy is
\* still in the slot.
C2_Witness ==
    /\ CURRENT_JOB # None
    /\ \E c \in Clients :
         client[c].pc = "ret" /\ client[c].resp.status_code = 409

\* C3: status() reports busy from a job's acceptance until its terminal
\* handoff; the handoff step clears busy and makes previous() return that
\* job's record in the same step; every job's outcome is recorded once.
C3_BusyUntilHandoff ==
    /\ [](\A j \in ActiveJobs : StatusReply(CURRENT_JOB).busy)
    /\ [](\A j \in Jobs :
            /\ recorded[j] <= 1
            /\ task[j].pc = "done" => recorded[j] = 1)
    /\ [][\A j \in Jobs : recorded'[j] # recorded[j] =>
            /\ slotJob = j
            /\ StatusReply(CURRENT_JOB).busy
            /\ ~StatusReply(CURRENT_JOB').busy
            /\ PreviousReply(PREVIOUS_JOB').status \in {"success", "failed"}
            /\ PreviousReply(PREVIOUS_JOB').input = CURRENT_JOB.input
            /\ PreviousReply(PREVIOUS_JOB') # PreviousReply(PREVIOUS_JOB)]_vars

\* C3 witness: a job's failed outcome has been recorded and the slot is clear.
C3_Witness ==
    /\ recorded[1] = 1 /\ CURRENT_JOB = None
    /\ PreviousReply(PREVIOUS_JOB).status = "failed"

\* the diagnostic text stderr_reader has read: its lines, each with its
\* newline
RECURSIVE DiagnosticText(_)
DiagnosticText(log) ==
    IF log = <<>> THEN <<>>
    ELSE Head(log) \o <<"\n">> \o DiagnosticText(Tail(log))

\* C4 as stated: every accepted job's terminal outcome is eventually
\* recorded, and an occupied slot is eventually cleared.
C4_EveryJobTerminates ==
    /\ \A j \in Jobs : (accepted >= j) ~> (recorded[j] = 1)
    /\ (CURRENT_JOB # None) ~> (CURRENT_JOB = None)

\* C5 as stated: after a non-zero exit the outcome is failed with the
\* non-empty diagnostic text as error detail; after exit code zero it is
\* success without error detail.
C5_ErrorIsDiagnosticText ==
    [][\A j \in Jobs :
         (recorded'[j] # recorded[j] /\ proc[j].state = "exited") =>
            IF proc[j].returncode # 0
            THEN /\ PREVIOUS_JOB'.status = "failed"
                 /\ PREVIOUS_JOB'.error # <<>>
                 /\ PREVIOUS_JOB'.error = DiagnosticText(reader[j].log)
            ELSE /\ PREVIOUS_JOB'.status = "success"
                 /\ "error" \notin DOMAIN PREVIOUS_JOB']_vars

\* C5 amended: after a non-zero exit the outcome is failed and the error
\* detail is the non-empty CalledProcessError message (the encoder command
\* and its exit status), the diagnostic text being logged only; after exit
\* code zero the outcome is success without error detail.
C5_ErrorIsExitStatus ==
    [][\A j \in Jobs :
         (recorded'[j] # recorded[j] /\ proc[j].state = "exited") =>
            IF proc[j].returncode # 0
            THEN /\ PREVIOUS_JOB'.status = "failed"
                 /\ PREVIOUS_JOB'.error # <<>>
                 /\ PREVIOUS_JOB'.error =
                        CalledProcessErrorMsg(proc[j].returncode,
                                              task[j].ffmpeg_cmd)
            ELSE /\ PREVIOUS_JOB'.status = "success"
                 /\ "error" \notin DOMAIN PREVIOUS_JOB']_vars

\* C5 witness: the encoder exited with code 1 after stderr_reader had read
\* its diagnostic line, and the failed outcome is recorded.
C5_Witness ==
    /\ recorded[1] = 1 /\ PREVIOUS_JOB # None /\ PREVIOUS_JOB.status = "failed"
    /\ proc[1].state = "exited" /\ proc[1].returncode = 1
    /\ reader[1].log # <<>>

Rank(status) ==
    CASE status = "starting" -> 0
      [] status = "analyzing" -> 1
      [] status = "transcoding" -> 2

BlockingCalls == {"L134", "L143", "L205", "L221", "L251"}

C8_OutputNormalized ==
    (CURRENT_JOB # None /\ CURRENT_JOB.status = "transcoding") =>
        /\ lower(splitext(StatusReply(CURRENT_JOB).output)[2]) = MKV
        /\ EnforceMkv(StatusReply(CURRENT_JOB).output)
               = StatusReply(CURRENT_JOB).output
        /\ \A j \in Jobs : task[j].pc \in {"L201", "L205", "L215", "L221"} =>
               task[j].ffmpeg_cmd[Len(task[j].ffmpeg_cmd)]
                   = StatusReply(CURRENT_JOB).output

\* C9: a rejected start_job call changes neither the slot nor the previous
\* result nor the tasks; an accepted one installs a Job in state starting
\* and then starts the one task of that job; tasks start in no other way.
C9_RejectCreatesNoJob ==
    /\ [][\A c \in Clients :
            (client[c].pc \in {"idle", "L297"} /\ client'[c].pc = "ret") =>
               /\ client'[c].resp.status_code \in {400, 409}
               /\ CURRENT_JOB' = CURRENT_JOB /\ PREVIOUS_JOB' = PREVIOUS_JOB
               /\ task' = task /\ accepted' = accepted]_vars
    /\ [][\A c \in Clients :
            (client[c].pc = "L297" /\ client'[c].pc = "L311") =>
               /\ CURRENT_JOB = None
               /\ CURRENT_JOB'.status = "starting"
               /\ CURRENT_JOB'.input = client[c].input
               /\ CURRENT_JOB'.output = client[c].output
               /\ accepted' = accepted + 1 /\ task' = task]_vars
    /\ [][\A j \in Jobs :
            (task[j].pc = "none" /\ task'[j].pc # "none") =>
               /\ \E c \in Clients :
                    /\ client[c].pc = "L311" /\ client[c].job = j
                    /\ client'[c].pc = "ret" /\ client'[c].resp = Accepted202
               /\ \A k \in Jobs \ {j} : task'[k] = task[k]]_vars
    /\ [](Cardinality({j \in Jobs : task[j].pc # "none"})
            + Cardinality({c \in Clients : client[c].pc = "L311"}) = accepted)

\* C9 witness: one call was accepted and its task started, the other was
\* rejected as busy.
C9_Witness ==
    \E c, d \in Clients :
        /\ client[c].pc = "ret" /\ client[c].resp = Accepted202
        /\ client[d].pc = "ret" /\ client[d].resp.status_code = 409
        /\ task[1].pc # "none" /\ task[2].pc = "none"

\* C10 as stated: no job ends failed because a prober invocation failed or
\* its output was malformed.
C10_ProbeFailureDegrades ==
    (PREVIOUS_JOB # None /\ PREVIOUS_JOB.status = "failed") =>
        PREVIOUS_JOB.error \notin {ProbeErrorMsg, KeyErrorMsg}

\* the task has found its input missing at line 121 and not yet recorded it
InputVanished(j) ==
    /\ task[j].pc \in {"L270", "L273"}
    /\ task[j].exc = FileNotFoundMsg(task[j].input_path)

\* C11: when the task finds at line 121 that the input start_job saw is gone,
\* it raises; from then on the reply of the accepted call is not touched, the
\* encoder is not launched and the status stays analyzing; the task's only
\* way on is the failed handoff, which records failed with the non-empty
\* "not found" text and a timestamp and clears the slot; and that handoff
\* does happen.
C11_VanishedInputFails ==
    /\ [][\A j \in Jobs :
            (task[j].pc = "L121" /\ task'[j].pc # "L121"
                /\ task[j].input_path \notin fs)
            => /\ InputVanished(j)' /\ task'[j].pc = "L270"
               /\ client' = client]_vars
    /\ [](\A j \in Jobs : InputVanished(j) =>
            /\ proc[j].state = "none" /\ reader[j].pc = "none"
            /\ slotJob = j /\ CURRENT_JOB # None
            /\ CURRENT_JOB.status = "analyzing"
            /\ task[j].exc # <<>>)
    /\ [][\A j \in Jobs : (InputVanished(j) /\ task'[j] # task[j]) =>
            /\ client' = client /\ proc' = proc
            /\ \/ task[j].pc = "L270" /\ InputVanished(j)'
                    /\ CURRENT_JOB' = CURRENT_JOB
               \/ /\ task[j].pc = "L273" /\ task'[j].pc = "done"
                  /\ recorded'[j] = 1
                  /\ CURRENT_JOB' = None
                  /\ PREVIOUS_JOB'.status = "failed"
                  /\ PREVIOUS_JOB'.error = FileNotFoundMsg(task[j].input_path)
                  /\ PREVIOUS_JOB'.error # <<>>
                  /\ "timestamp" \in DOMAIN PREVIOUS_JOB'
                  /\ PREVIOUS_JOB'.input = task[j].input_path]_vars
    /\ \A j \in Jobs :
         InputVanished(j) ~>
            (/\ recorded[j] = 1 /\ CURRENT_JOB = None /\ PREVIOUS_JOB # None
             /\ PREVIOUS_JOB.status = "failed" /\ proc[j].state = "none")

\* C11 witness: the call was accepted with 202, the input was removed, and
\* the job's failed outcome with the "not found" text is recorded, no
\* encoder having been launched.
C11_Witness ==
    /\ accepted = 1 /\ recorded[1] = 1 /\ CURRENT_JOB = None
    /\ PREVIOUS_JOB # None /\ PREVIOUS_JOB.status = "failed"
    /\ PREVIOUS_JOB.error = FileNotFoundMsg(PREVIOUS_JOB.input)
    /\ PREVIOUS_JOB.input \notin fs
    /\ proc[1].state = "none"

\* the jobs whose terminal outcome has been recorded
CompletedJobs == {j \in Jobs : recorded[j] > 0}

\* C12: previous() returns the sentinel exactly while no job's outcome has
\* been recorded; afterwards it returns the record of the job completed
\* last (the one with the latest clock reading); the record changes only in
\* the handoff step of a task, to the record of that task's job, and no step
\* of a request handler changes it.
C12_PreviousIsLastOutcome ==
    /\ []((PreviousReply(PREVIOUS_JOB).status = "none") <=> (CompletedJobs = {}))
    /\ [](PREVIOUS_JOB = None <=> CompletedJobs = {})
    /\ [](CompletedJobs # {} =>
            /\ PreviousReply(PREVIOUS_JOB) = PREVIOUS_JOB
            /\ PREVIOUS_JOB.status \in {"success", "failed"}
            /\ prevJob \in CompletedJobs
            /\ \A j \in CompletedJobs : j <= prevJob
            /\ PREVIOUS_JOB.timestamp = now
            /\ now = Cardinality(CompletedJobs))
    /\ [][PREVIOUS_JOB' # PREVIOUS_JOB =>
            \E j \in Jobs :
                /\ task[j].pc \in {"L260", "L273"} /\ task'[j].pc = "done"
                /\ recorded'[j] = recorded[j] + 1
                /\ prevJob' = j
                /\ PREVIOUS_JOB'.input = task[j].input_path
                /\ PREVIOUS_JOB'.output = task[j].output_path
                /\ client' = client]_vars
    /\ [][client' # client => PREVIOUS_JOB' = PREVIOUS_JOB]_vars

\* C12 witness: previous() is answering from the second job's record, which
\* replaced the first job's.
C12_Witness ==
    /\ CompletedJobs = {1, 2} /\ prevJob = 2
    /\ PREVIOUS_JOB # None /\ PREVIOUS_JOB.timestamp = 2
    /\ \E c \in Clients :
         client[c].pc = "L347" /\ JOB_LOCK = ClientThread(c)

\* the running task of the job in the slot has the Job's paths in its locals
LocalsAgree(j) ==
    /\ task[j].input_path = CURRENT_JOB.input
    /\ task[j].output_path = CURRENT_JOB.output

\* the handoff step of job j records the paths status() reported just before
RecordsReportedPaths(j) ==
    /\ CURRENT_JOB # None
    /\ PREVIOUS_JOB'.status \in {"success", "failed"}
    /\ PREVIOUS_JOB'.input = StatusReply(CURRENT_JOB).input
    /\ PREVIOUS_JOB'.output = StatusReply(CURRENT_JOB).output

\* C13 as stated: every handoff records the input and output status()
\* reported just before it, and the locals of a running task equal the
\* fields of its Job in every state.
C13_LocalsNeverDiverge ==
    [][/\ \A j \in Jobs : recorded'[j] # recorded[j] => RecordsReportedPaths(j)
       /\ \A j \in Jobs :
            (slotJob' = j /\ task'[j].pc \notin {"none", "done"})
                => LocalsAgree(j)']_vars

\* C13 amended: every handoff, success or failed, records the input and
\* output status() reported just before it; the local input never differs
\* from the Job's; the local output differs from the Job's only between the
\* normalization of line 114 and its publication at line 118, where the Job
\* still has the submitted output and the local is its normalization.
C13_RecordEqualsStatusAtHandoff ==
    /\ [][\A j \in Jobs : recorded'[j] # recorded[j] =>
            /\ RecordsReportedPaths(j)
            /\ LocalsAgree(j)]_vars
    /\ [](\A j \in Jobs :
            (slotJob = j /\ task[j].pc \notin {"none", "done"}) =>
               /\ task[j].input_path = CURRENT_JOB.input
               /\ IF task[j].pc \in {"L116", "L117"}
                  THEN /\ task[j].output_path # CURRENT_JOB.output
                       /\ task[j].output_path = EnforceMkv(CURRENT_JOB.output)
                       /\ CURRENT_JOB.status = "analyzing"
                  ELSE task[j].output_path = CURRENT_JOB.output)

\* C13 witness: a job submitted with output d/o has succeeded and its record
\* has the normalized output.
C13_Witness ==
    /\ PREVIOUS_JOB # None /\ PREVIOUS_JOB.status = "success"
    /\ PREVIOUS_JOB.output = <<"d", "/", "o", ".", "m", "k", "v">>
    /\ CURRENT_JOB = None

\* C14 as stated: when a job's outcome is recorded, its read loop is over
\* and its stderr_reader thread, if one was started, has ended.
C14_DrainsEndBeforeOutcome ==
    \A j \in Jobs :
        recorded[j] > 0 =>
            /\ task[j].pc = "done"
            /\ reader[j].pc # "running"

\* C15: every step that changes the slot is the install of start_job (into
\* an empty slot), or a step of the task of the job in the slot, which has
\* not recorded its outcome; a task's write keeps the Job's input and either
\* leaves the same job in the slot or clears the slot; once a task has
\* recorded its outcome it takes no further step.
C15_TaskWritesOwnJobOnly ==
    /\ [][CURRENT_JOB' # CURRENT_JOB =>
            \/ /\ CURRENT_JOB = None /\ slotJob = 0
               /\ slotJob' = accepted' /\ accepted' = accepted + 1
               /\ task' = task
            \/ /\ CURRENT_JOB # None /\ slotJob \in Jobs
               /\ recorded[slotJob] = 0
               /\ task'[slotJob] # task[slotJob]
               /\ \A k \in Jobs \ {slotJob} : task'[k] = task[k]
               /\ client' = client
               /\ \/ CURRENT_JOB' = None /\ slotJob' = 0
                        /\ recorded'[slotJob] = 1
                  \/ /\ CURRENT_JOB' # None /\ slotJob' = slotJob
                     /\ CURRENT_JOB'.input = CURRENT_JOB.input
                     /\ recorded' = recorded]_vars
    /\ [][\A j \in Jobs : recorded[j] > 0 => task'[j] = task[j]]_vars
    /\ [](\A j \in Jobs :
            task[j].pc \notin {"none", "done"} => (slotJob = j /\ recorded[j] = 0))

\* C15 witness: the first job is over and the second job's task has written
\* a frame count into the second job's Job.
C15_Witness ==
    /\ slotJob = 2 /\ task[1].pc = "done" /\ recorded[1] = 1
    /\ CURRENT_JOB # None /\ CURRENT_JOB.frames_processed = 1
    /\ task[2].pc = "L221"

\* C16 as stated: while the same job is in the slot, the frames_processed
\* status() returns does not decrease from one state to the next.
C16_FramesNeverDecrease ==
    [][(CURRENT_JOB # None /\ CURRENT_JOB' # None /\ slotJob' = slotJob) =>
          StatusReply(CURRENT_JOB').frames_processed
              >= StatusReply(CURRENT_JOB).frames_processed]_vars

\* what the claim says one progress line does to the Job: a frame line with
\* an integer value sets frames_processed, an fps line with a numeric value
\* sets fps, any other line changes nothing
LineEffect(job, line) ==
    IF Len(line) = 3 /\ line[1] = "frame" /\ line[2] = "=" /\ IsInt(<<line[3]>>)
    THEN [job EXCEPT !.frames_processed = IntOf(<<line[3]>>)]
    ELSE IF Len(line) = 3 /\ line[1] = "fps" /\ line[2] = "="
            /\ IsFloat(<<line[3]>>)
    THEN [job EXCEPT !.fps = FloatOf(<<line[3]>>)]
    ELSE job

EndLine == <<"progress", "=", "end">>

\* the task has left the read loop and not yet recorded the outcome
LoopOver(j) ==
    task[j].pc \in {"L251", "L259", "L260", "L270", "L273"}
        /\ proc[j].state # "none"

\* C17: the Job starts with frames_processed 0 and fps 0; each line the read
\* loop takes from the progress channel has exactly the effect LineEffect
\* says, applied once, and nothing else changes the two fields, so that when
\* the loop ends they are the values of the last parsable frame and fps
\* lines read (0 if none); the loop ends at end of file or at the first
\* progress=end line read, and after it no line is taken from the channel.
C17_ProgressParsing ==
    /\ [][\A c \in Clients :
            (client[c].pc = "L297" /\ client'[c].pc = "L311") =>
               CURRENT_JOB'.frames_processed = 0 /\ CURRENT_JOB'.fps = 0]_vars
    /\ [][\A j \in Jobs :
            (task[j].pc = "L221" /\ task'[j].pc = "L221"
                /\ proc'[j].stdout # proc[j].stdout /\ proc[j].stdout # <<>>
                /\ proc'[j].stdout = Tail(proc[j].stdout)) =>
               /\ CURRENT_JOB' = CURRENT_JOB
               /\ LineEffect(CURRENT_JOB, Head(proc[j].stdout)) = CURRENT_JOB
               /\ Head(proc[j].stdout) # EndLine]_vars
    /\ [][\A j \in Jobs :
            (task[j].pc = "L221" /\ task'[j].pc = "L235") =>
               /\ proc[j].stdout # <<>>
               /\ proc'[j].stdout = Tail(proc[j].stdout)
               /\ task'[j].key \o <<"=">> \o task'[j].value
                      = Head(proc[j].stdout)
               /\ CURRENT_JOB' = CURRENT_JOB]_vars
    /\ [](\A j \in Jobs : task[j].pc \in {"L235", "L236"} =>
            /\ CURRENT_JOB # None /\ slotJob = j
            /\ Len(task[j].key) = 1)
    /\ [][\A j \in Jobs :
            (task[j].pc = "L235" /\ task'[j] # task[j]) =>
               /\ task'[j] = [task[j] EXCEPT !.pc = "L236"]
               /\ CURRENT_JOB' = CURRENT_JOB]_vars
    /\ [][\A j \in Jobs :
            (task[j].pc = "L236" /\ task'[j].pc # "L236") =>
               LET line == task[j].key \o <<"=">> \o task[j].value
               IN  /\ CURRENT_JOB' = LineEffect(CURRENT_JOB, line)
                   /\ task'[j].pc = IF line = EndLine THEN "L251" ELSE "L221"
                   /\ proc' = proc]_vars
    /\ [][\A j \in Jobs :
            (task[j].pc = "L221" /\ task'[j].pc = "L251") =>
               /\ proc[j].stdout = <<>> /\ proc[j].state = "exited"
               /\ CURRENT_JOB' = CURRENT_JOB]_vars
    /\ [][\A j \in Jobs :
            (LoopOver(j) /\ proc'[j].stdout # proc[j].stdout) =>
               /\ Len(proc'[j].stdout) = Len(proc[j].stdout) + 1
               /\ SubSeq(proc'[j].stdout, 1, Len(proc[j].stdout))
                      = proc[j].stdout]_vars
    /\ [][(CURRENT_JOB # None /\ CURRENT_JOB' # None
             /\ (CURRENT_JOB'.frames_processed # CURRENT_JOB.frames_processed
                 \/ CURRENT_JOB'.fps # CURRENT_JOB.fps)) =>
            /\ slotJob \in Jobs /\ slotJob' = slotJob
            /\ task[slotJob].pc = "L236"]_vars

\* C17 witness: the loop read fps=1.5 and ended at progress=end, with a later
\* frame line left unread in the pipe: fps is 1.5, frames_processed still 0.
C17_Witness ==
    /\ task[1].pc = "L251"
    /\ proc[1].stdout = << <<"frame", "=", "1">> >>
    /\ CURRENT_JOB # None /\ CURRENT_JOB.frames_processed = 0
    /\ CURRENT_JOB.fps = 15

\* the first video stream of a narrow probe answer, if there is one
HasStream(p) == p.ok /\ p.streams # <<>>

\* a direct frame count is present and parses as an integer
HasCount(p) ==
    /\ HasStream(p)
    /\ p.streams[1].nb_frames \notin {ABSENT, <<>>}
    /\ IsInt(p.streams[1].nb_frames)

\* a duration and a frame rate num/den with den > 0 are present
HasRate(p) ==
    /\ HasStream(p)
    /\ p.streams[1].duration \notin {ABSENT, <<>>}
    /\ IsFloat(p.streams[1].duration)
    /\ p.streams[1].r_frame_rate # ABSENT
    /\ Len(p.streams[1].r_frame_rate) = 3
    /\ p.streams[1].r_frame_rate[2] = "/"
    /\ IsInt(<<p.streams[1].r_frame_rate[1]>>)
    /\ IsInt(<<p.streams[1].r_frame_rate[3]>>)
    /\ IntOf(<<p.streams[1].r_frame_rate[3]>>) > 0

\* duration * num (in tenths of a frame) and 10 * den of such an answer
RateNum(p) ==
    FloatOf(p.streams[1].duration) * IntOf(<<p.streams[1].r_frame_rate[1]>>)
RateDen(p) == 10 * IntOf(<<p.streams[1].r_frame_rate[3]>>)

\* total_frames as the claim states it
StatedTotal(p) ==
    IF HasCount(p) THEN IntOf(p.streams[1].nb_frames)
    ELSE IF HasRate(p) THEN RateNum(p) \div RateDen(p)
    ELSE 0

\* total_frames with a count of 0 treated as no count, the estimate made
\* only for a positive duration and rounded toward zero
EstimatedTotal(p) ==
    IF HasCount(p) /\ IntOf(p.streams[1].nb_frames) # 0
    THEN IntOf(p.streams[1].nb_frames)
    ELSE IF HasRate(p) /\ FloatOf(p.streams[1].duration) > 0
    THEN IF RateNum(p) >= 0 THEN RateNum(p) \div RateDen(p)
         ELSE -((-RateNum(p)) \div RateDen(p))
    ELSE 0

\* C18 as stated: the total_frames the narrow probe yields is the direct
\* count N whenever one is present and parses, for every integer N, else
\* floor(duration * num / den) when duration and rate are present with
\* den > 0, else 0.
C18_FrameCountPriority ==
    \A j \in Jobs :
        task[j].pc \in {"L135", "L136", "L143"} =>
            task[j].total_frames = StatedTotal(task[j].probe[1])

\* C18 amended: a direct count that parses as a non-zero integer N gives
\* total_frames = N; with no such count (absent, unparsable or 0), a
\* duration > 0 and a rate num/den with den > 0 give duration * num / den
\* rounded toward zero; otherwise total_frames is 0; and that value is what
\* the task publishes in the Job.
C18_FrameCountEstimate ==
    /\ [](\A j \in Jobs :
            task[j].pc \in {"L135", "L136", "L143"} =>
                task[j].total_frames = EstimatedTotal(task[j].probe[1]))
    /\ [][\A j \in Jobs :
            (task[j].pc = "L136" /\ task'[j].pc = "L143") =>
                /\ CURRENT_JOB' # None
                /\ CURRENT_JOB'.total_frames = EstimatedTotal(task[j].probe[1])]_vars

\* C18 witness: the probe answered a count of 0 with duration 10.0 and rate
\* 30/1, and the task is about to publish the estimate 300.
C18_Witness ==
    /\ task[1].pc = "L136"
    /\ task[1].probe =
          << FrameProbe(TRUE, <<FrameStream(<<"10.0">>, <<"0">>,
                                            <<"30", "/", "1">>)>>) >>
    /\ task[1].total_frames = 300

\* the arguments of the -map options of an encoder command, in order
RECURSIVE MapArgs(_)
MapArgs(cmd) ==
    IF Len(cmd) < 2 THEN <<>>
    ELSE IF cmd[1] = <<"-map">>
    THEN <<cmd[2]>> \o MapArgs(SubSeq(cmd, 3, Len(cmd)))
    ELSE MapArgs(Tail(cmd))

\* the audio mappings of a command: its mappings other than the video
\* mapping and the subtitle mapping
AudioMaps(cmd) ==
    SelectSeq(MapArgs(cmd), LAMBDA a : a \notin {<<"0:v:0">>, <<"0:s">>})

\* the positions of the audio streams of a list, and of those tagged English
AudioAt(streams) == {i \in 1..Len(streams) : streams[i].codec_type = "audio"}
EnglishAudioAt(streams) ==
    {i \in AudioAt(streams) :
        lower(streams[i].language) \in
            { <<"e", "n", "g">>, <<"e", "n">>,
              <<"e", "n", "g", "l", "i", "s", "h">> }}

\* the task has built its encoder command from the stream list it holds
PlanBuilt(j) == task[j].pc \in {"L200", "L201", "L205"}

\* C19: in every command built from a stream list, the first mapping is the
\* first video stream; with an English audio stream the only audio mapping
\* names the first such stream of the list by its index; with audio streams
\* but none English the only audio mapping is that of all audio streams;
\* with no audio stream there is no audio mapping.
C19_AudioSelection ==
    \A j \in Jobs : PlanBuilt(j) =>
        LET streams == task[j].streams[1]
            cmd == task[j].ffmpeg_cmd
            english == EnglishAudioAt(streams)
        IN  /\ MapArgs(cmd) # <<>> /\ MapArgs(cmd)[1] = <<"0:v:0">>
            /\ IF english # {}
               THEN LET first == CHOOSE i \in english : \A k \in english : i <= k
                    IN  AudioMaps(cmd) = << <<"0:", DigitStr(streams[first].index)>> >>
               ELSE IF AudioAt(streams) # {}
               THEN AudioMaps(cmd) = << <<"0:a">> >>
               ELSE AudioMaps(cmd) = <<>>

\* C19 witness: the list is a French audio stream, then one tagged en, then
\* one tagged ENG, and the command maps stream 1.
C19_Witness ==
    /\ PlanBuilt(1) /\ Len(task[1].streams[1]) = 3
    /\ task[1].streams[1][1].language = <<"f", "r">>
    /\ task[1].streams[1][2].language = <<"e", "n">>
    /\ task[1].streams[1][3].language = <<"E", "N", "G">>
    /\ \A i \in 1..3 : task[1].streams[1][i].codec_type = "audio"
    /\ AudioMaps(task[1].ffmpeg_cmd) = << <<"0:", "1">> >>

\* the positions of the subtitle streams of a list
SubtitleAt(streams) ==
    {i \in 1..Len(streams) : streams[i].codec_type = "subtitle"}

\* the arguments of the -c:s options of an encoder command, in order
RECURSIVE SubtitleCodecs(_)
SubtitleCodecs(cmd) ==
    IF Len(cmd) < 2 THEN <<>>
    ELSE IF cmd[1] = <<"-c:s">>
    THEN <<cmd[2]>> \o SubtitleCodecs(SubSeq(cmd, 3, Len(cmd)))
    ELSE SubtitleCodecs(Tail(cmd))

\* the subtitle mappings of a command
SubtitleMaps(cmd) == SelectSeq(MapArgs(cmd), LAMBDA a : a = <<"0:s">>)

\* C20: a command built from a list without subtitle streams has no subtitle
\* mapping and no subtitle codec; built from a list with subtitle streams it
\* has the one mapping of all subtitle streams and one subtitle codec, srt
\* if some subtitle stream is mov_text and copy if none is.
C20_SubtitlePolicy ==
    \A j \in Jobs : PlanBuilt(j) =>
        LET streams == task[j].streams[1]
            cmd == task[j].ffmpeg_cmd
        IN  IF SubtitleAt(streams) = {}
            THEN SubtitleMaps(cmd) = <<>> /\ SubtitleCodecs(cmd) = <<>>
            ELSE /\ SubtitleMaps(cmd) = << <<"0:s">> >>
                 /\ SubtitleCodecs(cmd) =
                      IF \E i \in SubtitleAt(streams) :
                             streams[i].codec_name = "mov_text"
                      THEN << <<"srt">> >> ELSE << <<"copy">> >>

\* C20 witness: of three subtitle streams only the last is mov_text, and the
\* command maps all subtitle streams with the codec srt.
C20_Witness ==
    /\ PlanBuilt(1) /\ Len(task[1].streams[1]) = 3
    /\ \A i \in 1..3 : task[1].streams[1][i].codec_type = "subtitle"
    /\ task[1].streams[1][1].codec_name = "subrip"
    /\ task[1].streams[1][2].codec_name = "<absent>"
    /\ task[1].streams[1][3].codec_name = "mov_text"
    /\ SubtitleCodecs(task[1].ffmpeg_cmd) = << <<"srt">> >>

====
